---- MODULE Spec2Model ----
(***************************************************************************)
(* Redwood background jobs: Executor (packages/jobs/src/core/Executor.ts)  *)
(* and the worker process (packages/jobs/src/bins/rw-jobs-worker.ts).      *)
(*                                                                         *)
(* JavaScript values are encoded as follows.                               *)
(*   - an optional value is a sequence: << >> is undefined/null, <<v>> is  *)
(*     the value v;                                                        *)
(*   - a string that the code parses or matches is a sequence of tokens    *)
(*     (JSON text: punctuation, null and string literals; an error         *)
(*     message: its words);                                                *)
(*   - an options object is a function from its own keys to optional       *)
(*     values, so a key that is present but undefined differs from a key   *)
(*     that is absent.                                                     *)
(* One action is one run-to-completion segment of JavaScript: the code     *)
(* between two awaits. Signal callbacks are dispatched only between        *)
(* segments.                                                               *)
(***************************************************************************)
EXTENDS Integers, Sequences, FiniteSets, TLC

VARIABLES
    mainPc,             \* position of main() in rw-jobs-worker.ts
    exitCode,           \* "none" while the process runs, else how it ended
    handlersInstalled,  \* setupSignals() has registered both listeners
    argv,               \* parsed command line: help, workoff, clear, queue
    adapterLoad,        \* outcome of loadAdapter(): pending, loaded or failed
    wPc,                \* position of Worker.run()
    forever,            \* worker.forever
    queueLeft,          \* jobs the adapter can still hand out
    jobsClaimed,        \* jobs returned by adapter claims so far
    unreported,         \* claimed jobs with no adapter.success/failure yet
    clearCalls,         \* adapter.clear invocations: the queue argument of each
    claimAfterDrain,    \* a claim was issued while forever was false
    drainInFlight,      \* forever was cleared while a job was executing
    runError,           \* why the promise of run() rejected
    adapterFault,       \* an adapter call threw or rejected
    lastSignal,         \* last signal dispatched to the process
    ePc,                \* position of the current Executor
    given,              \* options object passed to new Executor(...)
    executor,           \* fields of the Executor instance
    details,            \* const details = JSON.parse(this.job.handler)
    caught,             \* e of catch (e) in perform()
    rejection,          \* value perform() (or the constructor) threw
    errStep,            \* step of perform() at which an error was raised
    handlerResult,      \* how the job handler ended: returned, threw, ctorThrew
    successCalls,       \* adapter.success invocations by this Executor
    failureCalls,       \* adapter.failure invocations by this Executor
    performCalls,       \* handler perform invocations by this Executor
    succArg,            \* argument of adapter.success
    failArgs            \* arguments of adapter.failure

procVars == <<mainPc, exitCode, handlersInstalled, argv, adapterLoad, lastSignal>>
workerVars == <<wPc, forever, queueLeft, jobsClaimed, unreported, clearCalls,
                claimAfterDrain, drainInFlight, runError>>
execVars == <<ePc, given, executor, details, caught, rejection, errStep,
              handlerResult, successCalls, failureCalls, performCalls, succArg, failArgs>>
vars == <<procVars, workerVars, execVars, adapterFault>>

\* Number of jobs the backing store holds when the worker starts.
MaxJobs == 2

----------------------------------------------------------------------------
(* Values *)

Undefined == << >>
Some(v) == <<v>>
EmptyObj == [k \in {} |-> Undefined]

\* obj[key] of a JavaScript object: undefined when the key is absent.
Get(obj, key) == IF key \in DOMAIN obj THEN obj[key] ELSE Undefined

\* { ...a, ...b }
Spread(a, b) ==
    [k \in (DOMAIN a) \cup (DOMAIN b) |-> IF k \in DOMAIN b THEN b[k] ELSE a[k]]

DEFAULT_MAX_ATTEMPTS == 24
DEFAULT_DELETE_FAILED_JOBS == FALSE

DEFAULTS ==
    [logger |-> Some("console"),
     maxAttempts |-> Some(DEFAULT_MAX_ATTEMPTS),
     deleteFailedJobs |-> Some(DEFAULT_DELETE_FAILED_JOBS)]

----------------------------------------------------------------------------
(* JSON.parse over token sequences *)

Punct == {"{", "}", "[", "]", ":", ","}

JNull == [t |-> "null"]
JStr(s) == [t |-> "str", s |-> s]
JArr(es) == [t |-> "arr", elems |-> es]
JObj(fs) == [t |-> "obj", fields |-> fs]

ParseFail == [ok |-> FALSE, val |-> JNull, next |-> 0]
ParseOk(v, n) == [ok |-> TRUE, val |-> v, next |-> n]

Tok(toks, i) == IF i >= 1 /\ i <= Len(toks) THEN toks[i] ELSE "<eof>"

IsStringLit(t) == t \notin Punct /\ t # "null" /\ t # "<eof>"

RECURSIVE ParseValue(_, _)
RECURSIVE ParseElements(_, _, _)
RECURSIVE ParseMembers(_, _, _)

ParseValue(toks, i) ==
    LET t == Tok(toks, i) IN
    CASE t = "null" -> ParseOk(JNull, i + 1)
      [] t = "[" -> IF Tok(toks, i + 1) = "]"
                    THEN ParseOk(JArr(<< >>), i + 2)
                    ELSE ParseElements(toks, i + 1, << >>)
      [] t = "{" -> IF Tok(toks, i + 1) = "}"
                    THEN ParseOk(JObj(EmptyObj), i + 2)
                    ELSE ParseMembers(toks, i + 1, EmptyObj)
      [] IsStringLit(t) -> ParseOk(JStr(t), i + 1)
      [] OTHER -> ParseFail

ParseElements(toks, i, acc) ==
    LET r == ParseValue(toks, i) IN
    IF ~r.ok THEN ParseFail
    ELSE LET sep == Tok(toks, r.next) IN
         CASE sep = "," -> ParseElements(toks, r.next + 1, Append(acc, r.val))
           [] sep = "]" -> ParseOk(JArr(Append(acc, r.val)), r.next + 1)
           [] OTHER -> ParseFail

ParseMembers(toks, i, acc) ==
    IF ~(IsStringLit(Tok(toks, i)) /\ Tok(toks, i + 1) = ":") THEN ParseFail
    ELSE LET r == ParseValue(toks, i + 2) IN
         IF ~r.ok THEN ParseFail
         ELSE LET fs == Spread(acc, (Tok(toks, i) :> r.val))
                  sep == Tok(toks, r.next) IN
              CASE sep = "," -> ParseMembers(toks, r.next + 1, fs)
                [] sep = "}" -> ParseOk(JObj(fs), r.next + 1)
                [] OTHER -> ParseFail

\* JSON.parse(text): ok = FALSE when it throws SyntaxError.
JSONParse(text) ==
    LET r == ParseValue(text, 1) IN
    IF r.ok /\ r.next = Len(text) + 1
    THEN [ok |-> TRUE, val |-> r.val]
    ELSE [ok |-> FALSE, val |-> JNull]

\* value.key of a parsed value that is not null: own JSON fields only.
Prop(v, key) ==
    IF v.t = "obj" /\ key \in DOMAIN v.fields THEN Some(v.fields[key]) ELSE Undefined

\* ...value as call arguments succeeds for arrays and strings only.
IsIterable(m) == m # Undefined /\ m[1].t \in {"arr", "str"}

----------------------------------------------------------------------------
(* Thrown values *)

\* t: the JavaScript type of the value; mt: the type of value.message;
\* msg: the characters of the message when it is a string; src: who created it.
Thrown(t, kind, mt, text, src) ==
    [t |-> t, kind |-> kind, mt |-> mt, msg |-> text, src |-> src,
     name |-> Undefined]

Err(kind, text, src) == Thrown("error", kind, "string", text, src)

\* Errors raised by the JavaScript engine itself.
SyntaxError ==
    Err("SyntaxError",
        <<"U", "n", "e", "x", "p", "e", "c", "t", "e", "d", " ", "t", "o", "k",
          "e", "n", " ", "i", "n", " ", "J", "S", "O", "N">>,
        "runtime")
NullPropTypeError ==
    Err("TypeError",
        <<"C", "a", "n", "n", "o", "t", " ", "r", "e", "a", "d", " ", "p", "r",
          "o", "p", "e", "r", "t", "i", "e", "s", " ", "o", "f", " ", "n", "u",
          "l", "l">>,
        "runtime")
NotConstructorTypeError ==
    Err("TypeError",
        <<"j", "o", "b", "M", "o", "d", "u", "l", "e", "[", "d", "e", "t", "a",
          "i", "l", "s", ".", "h", "a", "n", "d", "l", "e", "r", "]", " ", "i",
          "s", " ", "n", "o", "t", " ", "a", " ", "c", "o", "n", "s", "t", "r",
          "u", "c", "t", "o", "r">>,
        "runtime")
SpreadTypeError ==
    Err("TypeError",
        <<"S", "p", "r", "e", "a", "d", " ", "s", "y", "n", "t", "a", "x", " ",
          "r", "e", "q", "u", "i", "r", "e", "s", " ", "a", "n", " ", "i", "t",
          "e", "r", "a", "b", "l", "e">>,
        "runtime")
MatchTypeError ==
    Err("TypeError",
        <<"C", "a", "n", "n", "o", "t", " ", "r", "e", "a", "d", " ", "p", "r",
          "o", "p", "e", "r", "t", "i", "e", "s", " ", "o", "f", " ", "u", "n",
          "d", "e", "f", "i", "n", "e", "d">>,
        "runtime")
LoggerTypeError ==
    Err("TypeError",
        <<"C", "a", "n", "n", "o", "t", " ", "r", "e", "a", "d", " ", "p", "r",
          "o", "p", "e", "r", "t", "i", "e", "s", " ", "o", "f", " ", "u", "n",
          "d", "e", "f", "i", "n", "e", "d", " ", "(", "i", "n", "f", "o", ")">>,
        "runtime")

AdapterRequiredError ==
    Err("AdapterRequiredError",
        <<"a", "d", "a", "p", "t", "e", "r", " ", "r", "e", "q", "u", "i", "r",
          "e", "d">>,
        "executor")
JobRequiredError ==
    Err("JobRequiredError",
        <<"j", "o", "b", " ", "r", "e", "q", "u", "i", "r", "e", "d">>,
        "executor")

\* new JobExportNotFoundError(name)
JobExportNotFoundError(name, src) ==
    [t |-> "error", kind |-> "JobExportNotFoundError", mt |-> "string",
     msg |-> <<"J", "o", "b", " ", "e", "x", "p", "o", "r", "t", " ", "n", "o",
              "t", " ", "f", "o", "u", "n", "d">>,
     src |-> src, name |-> name]

\* Values a job handler may throw: Error objects, a plain object, primitives.
\* The messages include ones in which the text "is not a constructor" starts
\* or ends inside a word.
HandlerThrows ==
    { Err("Error",
          <<"b", "o", "o", "m">>,
          "handler"),
      Err("Error", << >>, "handler"),
      Err("TypeError",
          <<"f", "o", "o", " ", "i", "s", " ", "n", "o", "t", " ", "a", " ",
            "c", "o", "n", "s", "t", "r", "u", "c", "t", "o", "r">>,
          "handler"),
      Err("TypeError",
          <<"x", " ", "i", "s", " ", "n", "o", "t", " ", "a", " ", "f", "u",
            "n", "c", "t", "i", "o", "n">>,
          "handler"),
      Err("Error",
          <<"A", "n", "a", "l", "y", "s", "i", "s", " ", "n", "o", "t", " ",
            "a", " ", "c", "o", "n", "s", "t", "r", "u", "c", "t", "o", "r">>,
          "handler"),
      Err("Error",
          <<"x", " ", "i", "s", " ", "n", "o", "t", " ", "a", " ", "c", "o",
            "n", "s", "t", "r", "u", "c", "t", "o", "r", "s">>,
          "handler"),
      Err("Error",
          <<"i", "s", " ", "n", "o", "t", " ", "a", " ", " ", "c", "o", "n",
            "s", "t", "r", "u", "c", "t", "o", "r">>,
          "handler"),
      Thrown("object", "Object", "string",
             <<"p", "l", "a", "i", "n", " ", "i", "s", " ", "n", "o", "t", " ",
               "a", " ", "c", "o", "n", "s", "t", "r", "u", "c", "t", "o", "r",
               " ", "h", "e", "r", "e">>,
             "handler"),
      Thrown("object", "Object", "number", << >>, "handler"),
      Thrown("string", "string", "undefined", << >>, "handler"),
      Thrown("null", "null", "undefined", << >>, "handler") }

\* Values an adapter call may throw synchronously, or reject with.
AdapterThrows ==
    { Err("Error",
          <<"d", "a", "t", "a", "b", "a", "s", "e", " ", "i", "s", " ", "d",
            "o", "w", "n">>,
          "adapter"),
      Thrown("string", "string", "undefined", << >>, "adapter") }
AdapterRejection ==
    Err("Error",
        <<"w", "r", "i", "t", "e", " ", "f", "a", "i", "l", "e", "d">>,
        "adapter")

\* An adapter call either returns (a promise) or throws synchronously.
AdapterCallOutcomes ==
    {[throws |-> FALSE, v |-> AdapterRejection]}
        \cup {[throws |-> TRUE, v |-> x] : x \in AdapterThrows}

\* The source text of the regular expression /is not a constructor/.
Pattern ==
    <<"i", "s", " ", "n", "o", "t", " ", "a", " ", "c", "o", "n", "s", "t",
      "r", "u", "c", "t", "o", "r">>

\* e.message.match(/is not a constructor/): the pattern occurs somewhere in
\* the text of the message, at any character position.
Matches(text) ==
    \E i \in 1..(Len(text) - Len(Pattern) + 1) :
        SubSeq(text, i, i + Len(Pattern) - 1) = Pattern

\* e.message.match(...) can be evaluated: e is not null and e.message is a string.
CanMatch(e) == e.t # "null" /\ e.mt = "string"

\* Classification by the error's class instead of its message.
MutClassifyByClass(e, det) ==
    IF e.kind = "TypeError" THEN JobExportNotFoundError(Prop(det, "handler"), "executor")
    ELSE e

\* let error = e; if (match) error = new JobExportNotFoundError(details.handler)
Classify(e, det) ==
    IF Matches(e.msg) THEN JobExportNotFoundError(Prop(det, "handler"), "executor")
    ELSE e

----------------------------------------------------------------------------
(* Jobs and job modules *)

HandlerTexts ==
    { <<"{", "handler", ":", "WelcomeJob", ",", "args", ":", "[", "]", "}">>,
      <<"{", "handler", ":", "WelcomeJob", ",", "args", ":",
        "[", "{", "userId", ":", "7", "}", "]", "}">>,
      <<"{", "handler", ":", "GhostJob", ",", "args", ":", "[", "]", "}">>,
      <<"{", "handler", ":", "NoFileJob", ",", "args", ":", "[", "]", "}">>,
      <<"{", "handler", ":", "WelcomeJob", "}">>,
      <<"null">>,
      <<"WelcomeJob">>,
      <<"{", "handler", ":">> }

Job(id, text) == [id |-> id, handler |-> text]

\* Job files on disk: "class" exports a class named like the file, "none"
\* exports nothing under that name.
Modules == [WelcomeJob |-> "class", GhostJob |-> "none"]

\* await loadJob(name): the module's export under that name, or a throw.
LoadJob(h) ==
    IF h # Undefined /\ h[1].t = "str" /\ h[1].s \in DOMAIN Modules
    THEN [ok |-> TRUE, export |-> Modules[h[1].s]]
    ELSE [ok |-> FALSE, export |-> "none"]

----------------------------------------------------------------------------
(* Executor *)

\* A perform() that blanks this.job.handler once it has parsed it.
MutTheJobHandlerBlanked ==
    IF ePc = "constructed"
    THEN executor.job[1]
    ELSE [executor.job[1] EXCEPT !.handler = << >>]

\* this.job
TheJob == executor.job[1]

Settled == ePc \in {"resolved", "rejected"}

\* A constructor that looks for the job before it looks for the adapter.
MutExecutorNewJobFirst ==
    /\ ePc = "new"
    /\ exitCode = "none"
    /\ LET options == Spread(DEFAULTS, given) IN
       IF Get(options, "job") = Undefined
       THEN /\ executor' = ("options" :> options)
            /\ rejection' = Some(JobRequiredError)
            /\ ePc' = "ctorThrew"
       ELSE IF Get(options, "adapter") = Undefined
       THEN /\ executor' = ("options" :> options)
            /\ rejection' = Some(AdapterRequiredError)
            /\ ePc' = "ctorThrew"
       ELSE /\ executor' = [options |-> options,
                            adapter |-> options.adapter,
                            logger |-> options.logger,
                            job |-> options.job,
                            maxAttempts |-> options.maxAttempts,
                            deleteFailedJobs |-> options.deleteFailedJobs]
            /\ rejection' = rejection
            /\ ePc' = "constructed"
    /\ UNCHANGED <<given, details, caught, errStep, handlerResult, successCalls,
                   failureCalls, performCalls, succArg, failArgs>>
    /\ UNCHANGED <<procVars, workerVars, adapterFault>>

\* constructor(options)
ExecutorNew ==
    /\ ePc = "new"
    /\ exitCode = "none"
    /\ LET options == Spread(DEFAULTS, given) IN
       IF Get(options, "adapter") = Undefined
       THEN /\ executor' = ("options" :> options)
            /\ rejection' = Some(AdapterRequiredError)
            /\ ePc' = "ctorThrew"
       ELSE IF Get(options, "job") = Undefined
       THEN /\ executor' = ("options" :> options)
            /\ rejection' = Some(JobRequiredError)
            /\ ePc' = "ctorThrew"
       ELSE /\ executor' = [options |-> options,
                            adapter |-> options.adapter,
                            logger |-> options.logger,
                            job |-> options.job,
                            maxAttempts |-> options.maxAttempts,
                            deleteFailedJobs |-> options.deleteFailedJobs]
            /\ rejection' = rejection
            /\ ePc' = "constructed"
    /\ UNCHANGED <<given, details, caught, errStep, handlerResult, successCalls,
                   failureCalls, performCalls, succArg, failArgs>>
    /\ UNCHANGED <<procVars, workerVars, adapterFault>>

\* A catch block that gives up silently on a value it cannot classify.
MutCatchBlockSwallows(e, det) ==
    /\ caught' = Some(e)
    /\ IF ~CanMatch(e)
       THEN /\ ePc' = "resolved"
            /\ UNCHANGED <<rejection, adapterFault, failureCalls, failArgs>>
       ELSE /\ failureCalls' = failureCalls + 1
            /\ failArgs' = Some([job |-> executor.job[1],
                                 error |-> Classify(e, det),
                                 opts |-> [maxAttempts |-> executor.maxAttempts,
                                           deleteFailedJobs |->
                                               executor.deleteFailedJobs]])
            /\ ePc' = "awaitFailure"
            /\ UNCHANGED <<rejection, adapterFault>>

\* The catch block of perform(), entered with e while details is det.
CatchBlock(e, det) ==
    /\ caught' = Some(e)
    /\ IF ~CanMatch(e)
       THEN /\ ePc' = "rejected"
            /\ rejection' = Some(MatchTypeError)
            /\ adapterFault' = (adapterFault \/ e.src = "adapter")
            /\ UNCHANGED <<failureCalls, failArgs>>
       ELSE /\ failureCalls' = failureCalls + 1
            /\ failArgs' = Some([job |-> TheJob,
                                 error |-> Classify(e, det),
                                 opts |-> [maxAttempts |-> executor.maxAttempts,
                                           deleteFailedJobs |->
                                               executor.deleteFailedJobs]])
            /\ \E out \in AdapterCallOutcomes :
                  IF out.throws
                  THEN /\ ePc' = "rejected"
                       /\ rejection' = Some(out.v)
                       /\ adapterFault' = TRUE
                  ELSE /\ ePc' = "awaitFailure"
                       /\ rejection' = rejection
                       /\ adapterFault' = (adapterFault \/ e.src = "adapter")

\* perform() from its call to the first await: log, JSON.parse, details.handler,
\* the call of loadJob.
PerformCall ==
    /\ ePc = "constructed"
    /\ exitCode = "none"
    /\ LET parsed == JSONParse(TheJob.handler) IN
       IF executor.logger = Undefined
       THEN /\ ePc' = "rejected"
            /\ rejection' = Some(LoggerTypeError)
            /\ errStep' = "log"
            /\ UNCHANGED <<details, caught, failureCalls, failArgs, adapterFault>>
       ELSE IF ~parsed.ok
       THEN /\ ePc' = "rejected"
            /\ rejection' = Some(SyntaxError)
            /\ errStep' = "parse"
            /\ UNCHANGED <<details, caught, failureCalls, failArgs, adapterFault>>
       ELSE /\ details' = Some(parsed.val)
            /\ IF parsed.val.t = "null"
               THEN /\ errStep' = "resolve"
                    /\ CatchBlock(NullPropTypeError, parsed.val)
               ELSE /\ ePc' = "loading"
                    /\ UNCHANGED <<caught, rejection, errStep, failureCalls, failArgs,
                                   adapterFault>>
    /\ UNCHANGED <<given, executor, handlerResult, successCalls, performCalls, succArg>>
    /\ UNCHANGED <<procVars, workerVars>>

\* loadJob settles: new jobModule[details.handler]().perform(...details.args).
\* The class is constructed first, then details.args is spread, then perform
\* is invoked.
LoadJobSettled ==
    /\ ePc = "loading"
    /\ exitCode = "none"
    /\ LET det == details[1]
           loaded == LoadJob(Prop(det, "handler")) IN
       IF ~loaded.ok
       THEN /\ errStep' = "resolve"
            /\ CatchBlock(JobExportNotFoundError(Prop(det, "handler"), "loader"), det)
            /\ UNCHANGED <<performCalls, handlerResult>>
       ELSE IF loaded.export # "class"
       THEN /\ errStep' = "resolve"
            /\ CatchBlock(NotConstructorTypeError, det)
            /\ UNCHANGED <<performCalls, handlerResult>>
       ELSE \/ \E v \in HandlerThrows :
                 /\ handlerResult' = "ctorThrew"
                 /\ errStep' = "invoke"
                 /\ CatchBlock(v, det)
                 /\ UNCHANGED performCalls
            \/ /\ UNCHANGED handlerResult
               /\ IF ~IsIterable(Prop(det, "args"))
                  THEN /\ errStep' = "invoke"
                       /\ CatchBlock(SpreadTypeError, det)
                       /\ UNCHANGED performCalls
                  ELSE /\ performCalls' = performCalls + 1
                       /\ ePc' = "running"
                       /\ UNCHANGED <<caught, rejection, errStep, failureCalls,
                                      failArgs, adapterFault>>
    /\ UNCHANGED <<given, executor, details, successCalls, succArg>>
    /\ UNCHANGED <<procVars, workerVars>>

\* The handler's perform resolves: return this.adapter.success(this.job)
HandlerReturns ==
    /\ ePc = "running"
    /\ exitCode = "none"
    /\ handlerResult' = "returned"
    /\ successCalls' = successCalls + 1
    /\ succArg' = Some(TheJob)
    /\ \E out \in AdapterCallOutcomes :
          IF out.throws
          THEN /\ errStep' = "success"
               /\ CatchBlock(out.v, details[1])
          ELSE /\ ePc' = "awaitSuccess"
               /\ UNCHANGED <<caught, rejection, errStep, failureCalls, failArgs,
                              adapterFault>>
    /\ UNCHANGED <<given, executor, details, performCalls>>
    /\ UNCHANGED <<procVars, workerVars>>

\* A perform() that invokes the handler a second time when it throws.
MutHandlerThrowsRetries ==
    /\ ePc = "running"
    /\ exitCode = "none"
    /\ \E v \in HandlerThrows :
          /\ handlerResult' = "threw"
          /\ IF performCalls < 2
             THEN /\ performCalls' = performCalls + 1
                  /\ UNCHANGED <<ePc, caught, rejection, errStep, failureCalls,
                                 failArgs, adapterFault>>
             ELSE /\ errStep' = "invoke"
                  /\ CatchBlock(v, details[1])
                  /\ UNCHANGED performCalls
    /\ UNCHANGED <<given, executor, details, successCalls, succArg>>
    /\ UNCHANGED <<procVars, workerVars>>

\* The handler's perform throws v, or the promise it returned rejects with v.
HandlerThrowsValue ==
    /\ ePc = "running"
    /\ exitCode = "none"
    /\ \E v \in HandlerThrows :
          /\ handlerResult' = "threw"
          /\ errStep' = "invoke"
          /\ CatchBlock(v, details[1])
    /\ UNCHANGED <<given, executor, details, successCalls, performCalls, succArg>>
    /\ UNCHANGED <<procVars, workerVars>>

\* The promise returned by adapter.success / adapter.failure settles, and
\* with it the promise of perform().
AdapterSettles ==
    /\ ePc \in {"awaitSuccess", "awaitFailure"}
    /\ exitCode = "none"
    /\ \/ ePc' = "resolved" /\ UNCHANGED <<rejection, errStep, adapterFault>>
       \/ /\ ePc' = "rejected"
          /\ rejection' = Some(AdapterRejection)
          /\ adapterFault' = TRUE
          /\ errStep' = IF errStep = "none" THEN "report" ELSE errStep
    /\ UNCHANGED <<given, executor, details, caught, handlerResult, successCalls,
                   failureCalls, performCalls, succArg, failArgs>>
    /\ UNCHANGED <<procVars, workerVars>>

ExecNext ==
    \/ ExecutorNew
    \/ PerformCall
    \/ LoadJobSettled
    \/ HandlerReturns
    \/ HandlerThrowsValue
    \/ AdapterSettles

----------------------------------------------------------------------------
(* An Executor on its own: every combination of supplied options *)

SuppliedMaxAttempts == 3

OptionChoices(key, values) ==
    {EmptyObj} \cup {(key :> v) : v \in values}

SuppliedOptions ==
    { Spread(Spread(Spread(a, j), Spread(l, m)), d) :
        a \in OptionChoices("adapter", {Undefined, Some("adapter")}),
        j \in OptionChoices("job", {Undefined} \cup
                                   {Some(Job(42, t)) : t \in HandlerTexts}),
        l \in OptionChoices("logger", {Undefined, Some("logger")}),
        m \in OptionChoices("maxAttempts", {Undefined, Some(SuppliedMaxAttempts)}),
        d \in OptionChoices("deleteFailedJobs", {Undefined, Some(TRUE)}) }

ExecInit ==
    /\ mainPc = "harness"
    /\ exitCode = "none"
    /\ handlersInstalled = FALSE
    /\ argv = [help |-> FALSE, workoff |-> FALSE, clear |-> FALSE,
               queue |-> Undefined]
    /\ adapterLoad = "pending"
    /\ lastSignal = "none"
    /\ wPc = "none"
    /\ forever = TRUE
    /\ queueLeft = 0
    /\ jobsClaimed = 0
    /\ unreported = 0
    /\ clearCalls = << >>
    /\ claimAfterDrain = FALSE
    /\ drainInFlight = FALSE
    /\ runError = "none"
    /\ adapterFault = FALSE
    /\ ePc = "new"
    /\ given \in SuppliedOptions
    /\ executor = EmptyObj
    /\ details = Undefined
    /\ caught = Undefined
    /\ rejection = Undefined
    /\ errStep = "none"
    /\ handlerResult = "none"
    /\ successCalls = 0
    /\ failureCalls = 0
    /\ performCalls = 0
    /\ succArg = Undefined
    /\ failArgs = Undefined

ExecSpec == ExecInit /\ [][ExecNext]_vars

----------------------------------------------------------------------------
(* Worker.run() *)

\* A main() that constructs the Worker without passing the workoff flag on.
MutWorkerOptionsNoWorkoff ==
    [queue |-> argv.queue, workoff |-> FALSE, clear |-> argv.clear]

\* A main() that constructs the Worker without passing the clear flag on.
MutWorkerOptionsNoClear ==
    [queue |-> argv.queue, workoff |-> argv.workoff, clear |-> FALSE]

\* new Worker({ adapter, processName, logger, queue, workoff, clear }): the
\* options main() hands to the Worker.
WorkerOptions ==
    [queue |-> argv.queue, workoff |-> argv.workoff, clear |-> argv.clear]

\* new Executor({ adapter, logger, job }) for a claimed job
ExecutorOptions(job) ==
    [adapter |-> Some("adapter"), logger |-> Some("logger"), job |-> Some(job)]

\* A claimed job is in flight: its perform() is suspended at an await.
InFlight ==
    wPc = "executing" /\ ePc \in {"loading", "running", "awaitSuccess", "awaitFailure"}

\* Loop continuation: forever AND (not workoff OR a job was available on the
\* last claim attempt).
Continue(hadJob) == forever /\ (~WorkerOptions.workoff \/ hadJob)

\* The loop boundary: issue the next claim or let run() resolve.
LoopBoundary(hadJob) ==
    /\ wPc' = IF Continue(hadJob) THEN "claiming" ELSE "resolved"
    /\ claimAfterDrain' = (claimAfterDrain \/ (Continue(hadJob) /\ ~forever))

WorkerRunning == mainPc = "done" /\ exitCode = "none"

\* adapter.claim returns a job: construct its Executor and call perform().
ClaimReturnsJob ==
    /\ WorkerRunning
    /\ wPc = "claiming"
    /\ queueLeft > 0
    /\ \E text \in HandlerTexts :
          given' = ExecutorOptions(Job(jobsClaimed + 1, text))
    /\ queueLeft' = queueLeft - 1
    /\ jobsClaimed' = jobsClaimed + 1
    /\ wPc' = "executing"
    /\ ePc' = "new"
    /\ executor' = EmptyObj
    /\ details' = Undefined
    /\ caught' = Undefined
    /\ rejection' = Undefined
    /\ errStep' = "none"
    /\ handlerResult' = "none"
    /\ successCalls' = 0
    /\ failureCalls' = 0
    /\ performCalls' = 0
    /\ succArg' = Undefined
    /\ failArgs' = Undefined
    /\ UNCHANGED <<forever, unreported, clearCalls, claimAfterDrain, drainInFlight,
                   runError, adapterFault, procVars>>

\* adapter.claim returns no job: stop in workoff mode, else back off.
ClaimReturnsNone ==
    /\ WorkerRunning
    /\ wPc = "claiming"
    /\ queueLeft = 0
    /\ IF WorkerOptions.workoff
       THEN LoopBoundary(FALSE)
       ELSE wPc' = "waiting" /\ UNCHANGED claimAfterDrain
    /\ UNCHANGED <<forever, queueLeft, jobsClaimed, unreported, clearCalls,
                   drainInFlight, runError, adapterFault, procVars, execVars>>

\* adapter.claim fails: the error leaves run().
ClaimThrows ==
    /\ WorkerRunning
    /\ wPc = "claiming"
    /\ wPc' = "rejected"
    /\ runError' = "claim"
    /\ adapterFault' = TRUE
    /\ UNCHANGED <<forever, queueLeft, jobsClaimed, unreported, clearCalls,
                   claimAfterDrain, drainInFlight, procVars, execVars>>

\* The back-off delay of an idle worker elapses.
WaitElapsed ==
    /\ WorkerRunning
    /\ wPc = "waiting"
    /\ LoopBoundary(FALSE)
    /\ UNCHANGED <<forever, queueLeft, jobsClaimed, unreported, clearCalls,
                   drainInFlight, runError, adapterFault, procVars, execVars>>

\* await perform() resumes: a rejection leaves run(), a result ends the iteration.
PerformSettled ==
    /\ WorkerRunning
    /\ wPc = "executing"
    /\ ePc \in {"resolved", "rejected", "ctorThrew"}
    /\ IF ePc = "resolved"
       THEN /\ LoopBoundary(TRUE)
            /\ unreported' = unreported +
                   (IF successCalls + failureCalls = 0 /\ Continue(TRUE) THEN 1 ELSE 0)
            /\ UNCHANGED runError
       ELSE /\ wPc' = "rejected"
            /\ runError' = "job"
            /\ UNCHANGED <<unreported, claimAfterDrain>>
    /\ UNCHANGED <<forever, queueLeft, jobsClaimed, clearCalls, drainInFlight,
                   adapterFault, procVars, execVars>>

\* The promise of adapter.clear settles.
ClearSettles ==
    /\ WorkerRunning
    /\ wPc = "clearing"
    /\ \/ wPc' = "resolved" /\ UNCHANGED <<runError, adapterFault>>
       \/ wPc' = "rejected" /\ runError' = "clear" /\ adapterFault' = TRUE
    /\ UNCHANGED <<forever, queueLeft, jobsClaimed, unreported, clearCalls,
                   claimAfterDrain, drainInFlight, procVars, execVars>>

WorkerNext ==
    \/ ClaimReturnsJob
    \/ ClaimReturnsNone
    \/ ClaimThrows
    \/ WaitElapsed
    \/ PerformSettled
    \/ ClearSettles

----------------------------------------------------------------------------
(* rw-jobs-worker.ts: main() and the signal listeners *)

\* parseArgs(process.argv): with --help or --version yargs prints and calls
\* process.exit(0); otherwise main() goes on with the parsed options.
ParseArgs ==
    /\ mainPc = "parseArgs"
    /\ exitCode = "none"
    /\ IF argv.help
       THEN exitCode' = "0" /\ UNCHANGED mainPc
       ELSE mainPc' = "setProcessTitle" /\ UNCHANGED exitCode
    /\ UNCHANGED <<handlersInstalled, argv, adapterLoad, lastSignal, workerVars,
                   execVars, adapterFault>>

\* setProcessTitle({ id, queue }): process.title = title assigns to the
\* imported namespace object. Built as CommonJS the assignment succeeds; run
\* as an ES module the namespace is read-only, the assignment throws, main()
\* rejects with nothing handling it and Node ends the process with code 1.
SetProcessTitle ==
    /\ mainPc = "setProcessTitle"
    /\ exitCode = "none"
    /\ \/ mainPc' = "loadLogger" /\ UNCHANGED exitCode
       \/ mainPc' = "rejected" /\ exitCode' = "1"
    /\ UNCHANGED <<handlersInstalled, argv, adapterLoad, lastSignal, workerVars,
                   execVars, adapterFault>>

\* const logger = await loadLogger()
LoadLogger ==
    /\ mainPc = "loadLogger"
    /\ exitCode = "none"
    /\ mainPc' = "loadAdapter"
    /\ UNCHANGED <<exitCode, handlersInstalled, argv, adapterLoad, lastSignal,
                   workerVars, execVars, adapterFault>>

\* adapter = await loadAdapter() succeeds
LoadAdapterOk ==
    /\ mainPc = "loadAdapter"
    /\ exitCode = "none"
    /\ mainPc' = "newWorker"
    /\ adapterLoad' = "loaded"
    /\ UNCHANGED <<exitCode, handlersInstalled, argv, lastSignal, workerVars,
                   execVars, adapterFault>>

\* A main() that logs the loadAdapter() error and carries on without exiting.
MutLoadAdapterFailsContinues ==
    /\ mainPc = "loadAdapter"
    /\ exitCode = "none"
    /\ adapterLoad' = "failed"
    /\ mainPc' = "newWorker"
    /\ UNCHANGED <<exitCode, handlersInstalled, argv, lastSignal, workerVars,
                   execVars, adapterFault>>

\* loadAdapter() throws: logger.error(e); process.exit(1)
LoadAdapterFails ==
    /\ mainPc = "loadAdapter"
    /\ exitCode = "none"
    /\ adapterLoad' = "failed"
    /\ exitCode' = "1"
    /\ UNCHANGED <<mainPc, handlersInstalled, argv, lastSignal, workerVars,
                   execVars, adapterFault>>

\* const worker = new Worker({ adapter, processName, logger, queue, workoff, clear })
NewWorker ==
    /\ mainPc = "newWorker"
    /\ exitCode = "none"
    /\ mainPc' = "run"
    /\ wPc' = "idle"
    /\ forever' = TRUE
    /\ UNCHANGED <<exitCode, handlersInstalled, argv, adapterLoad, lastSignal,
                   queueLeft, jobsClaimed, unreported, clearCalls,
                   claimAfterDrain, drainInFlight, runError, execVars,
                   adapterFault>>

\* worker.run() up to its first await: adapter.clear or the first claim.
WorkerRun ==
    /\ mainPc = "run"
    /\ exitCode = "none"
    /\ wPc = "idle"
    /\ mainPc' = "setupSignals"
    /\ IF WorkerOptions.clear
       THEN /\ clearCalls' = Append(clearCalls, WorkerOptions.queue)
            /\ wPc' = "clearing"
            /\ UNCHANGED claimAfterDrain
       ELSE /\ LoopBoundary(TRUE)
            /\ UNCHANGED clearCalls
    /\ UNCHANGED <<exitCode, handlersInstalled, argv, adapterLoad, lastSignal,
                   forever, queueLeft, jobsClaimed, unreported, drainInFlight,
                   runError, execVars, adapterFault>>

\* setupSignals({ worker, logger }): process.on('SIGINT'), process.on('SIGTERM')
SetupSignals ==
    /\ mainPc = "setupSignals"
    /\ exitCode = "none"
    /\ mainPc' = "done"
    /\ handlersInstalled' = TRUE
    /\ UNCHANGED <<exitCode, argv, adapterLoad, lastSignal, workerVars, execVars,
                   adapterFault>>

\* worker.run().then(() => { ...; process.exit(0) })
RunThen ==
    /\ mainPc = "done"
    /\ exitCode = "none"
    /\ wPc = "resolved"
    /\ exitCode' = "0"
    /\ UNCHANGED <<mainPc, handlersInstalled, argv, adapterLoad, lastSignal,
                   workerVars, execVars, adapterFault>>

\* A main() that exits with code 0 however the promise of run() settles.
MutRejectionExitsZero ==
    /\ mainPc = "done"
    /\ exitCode = "none"
    /\ wPc = "rejected"
    /\ exitCode' = "0"
    /\ UNCHANGED <<mainPc, handlersInstalled, argv, adapterLoad, lastSignal,
                   workerVars, execVars, adapterFault>>

\* The promise of run() rejects and nothing handles it: Node ends the
\* process with exit code 1 and the then-callback never runs.
UnhandledRejection ==
    /\ mainPc = "done"
    /\ exitCode = "none"
    /\ wPc = "rejected"
    /\ exitCode' = "1"
    /\ UNCHANGED <<mainPc, handlersInstalled, argv, adapterLoad, lastSignal,
                   workerVars, execVars, adapterFault>>

MainNext ==
    \/ ParseArgs
    \/ SetProcessTitle
    \/ LoadLogger
    \/ LoadAdapterOk
    \/ LoadAdapterFails
    \/ NewWorker
    \/ WorkerRun
    \/ SetupSignals
    \/ RunThen
    \/ UnhandledRejection

\* No JavaScript is running and no promise continuation is pending: the
\* event loop can dispatch a signal callback.
StackEmpty ==
    /\ exitCode = "none"
    /\ mainPc \in {"loadLogger", "loadAdapter", "done"}
    /\ ePc \notin {"new", "constructed"}
    /\ ~(wPc = "executing" /\ ePc \in {"resolved", "rejected", "ctorThrew"})
    /\ wPc \notin {"resolved", "rejected"}

\* A SIGINT listener that ends the process at once.
MutSigintExits ==
    /\ exitCode' = "0"
    /\ UNCHANGED <<forever, drainInFlight>>

\* process.on('SIGINT', () => { logger.warn(...); worker.forever = false })
SigintListener ==
    /\ forever' = FALSE
    /\ drainInFlight' = (drainInFlight \/ InFlight)
    /\ UNCHANGED exitCode

\* A SIGTERM listener that only asks for a graceful drain.
MutSigtermDrains ==
    /\ forever' = FALSE
    /\ UNCHANGED <<exitCode, drainInFlight>>

\* process.on('SIGTERM', () => { logger.info(...); process.exit(0) })
SigtermListener ==
    /\ exitCode' = "0"
    /\ UNCHANGED <<forever, drainInFlight>>

Sigint ==
    /\ StackEmpty
    /\ handlersInstalled
    /\ lastSignal' = "SIGINT"
    /\ SigintListener
    /\ UNCHANGED <<mainPc, handlersInstalled, argv, adapterLoad, wPc, queueLeft,
                   jobsClaimed, unreported, clearCalls, claimAfterDrain,
                   runError, execVars, adapterFault>>

Sigterm ==
    /\ StackEmpty
    /\ handlersInstalled
    /\ lastSignal' = "SIGTERM"
    /\ SigtermListener
    /\ UNCHANGED <<mainPc, handlersInstalled, argv, adapterLoad, wPc, queueLeft,
                   jobsClaimed, unreported, clearCalls, claimAfterDrain,
                   runError, execVars, adapterFault>>

\* A signal with no listener registered: the default disposition ends the
\* process, whatever JavaScript is running at that moment.
SignalBeforeSetup ==
    /\ exitCode = "none"
    /\ ~handlersInstalled
    /\ lastSignal' \in {"SIGINT", "SIGTERM"}
    /\ exitCode' = "signal"
    /\ UNCHANGED <<mainPc, handlersInstalled, argv, adapterLoad, workerVars,
                   execVars, adapterFault>>

SignalNext ==
    \/ Sigint
    \/ Sigterm
    \/ SignalBeforeSetup

Init ==
    /\ mainPc = "parseArgs"
    /\ exitCode = "none"
    /\ handlersInstalled = FALSE
    /\ argv \in [help : BOOLEAN, workoff : BOOLEAN, clear : BOOLEAN,
                  queue : {Undefined, Some("email")}]
    /\ adapterLoad = "pending"
    /\ lastSignal = "none"
    /\ wPc = "none"
    /\ forever = TRUE
    /\ queueLeft \in 0..MaxJobs
    /\ jobsClaimed = 0
    /\ unreported = 0
    /\ clearCalls = << >>
    /\ claimAfterDrain = FALSE
    /\ drainInFlight = FALSE
    /\ runError = "none"
    /\ adapterFault = FALSE
    /\ ePc = "none"
    /\ given = EmptyObj
    /\ executor = EmptyObj
    /\ details = Undefined
    /\ caught = Undefined
    /\ rejection = Undefined
    /\ errStep = "none"
    /\ handlerResult = "none"
    /\ successCalls = 0
    /\ failureCalls = 0
    /\ performCalls = 0
    /\ succArg = Undefined
    /\ failArgs = Undefined

Next ==
    \/ MainNext
    \/ WorkerNext
    \/ ExecNext
    \/ SignalNext

Spec == Init /\ [][Next]_vars

\* The event loop runs every continuation that is ready; signals may never come.
FairSpec ==
    /\ Spec
    /\ WF_vars(MainNext)
    /\ WF_vars(WorkerNext)
    /\ WF_vars(ExecNext)

----------------------------------------------------------------------------
(* Properties of Executor.perform() *)

Reports == successCalls + failureCalls

\* C1: every perform() call makes exactly one adapter.success or
\* adapter.failure invocation in total, whatever the outcome of parsing, of
\* the handler lookup and of the handler.
C1_ExactlyOneReport == Settled => Reports = 1

\* C2: when the handler was resolved and its perform returned, adapter.success
\* is called exactly once and adapter.failure never, also when the
\* adapter.success call itself raises.
C2_SuccessNeverFailure ==
    handlerResult = "returned" => (successCalls = 1 /\ failureCalls = 0)

\* C3: when the handler throws any value, adapter.failure is called exactly
\* once with the job given at construction, the classified error and the
\* Executor's { maxAttempts, deleteFailedJobs }, and adapter.success never.
C3_ThrowReportsFailure ==
    (handlerResult \in {"threw", "ctorThrew"} /\ Settled) =>
        /\ successCalls = 0
        /\ failureCalls = 1
        /\ failArgs = Some([job |-> given.job[1],
                            error |-> Classify(caught[1], details[1]),
                            opts |-> [maxAttempts |-> executor.maxAttempts,
                                      deleteFailedJobs |-> executor.deleteFailedJobs]])

\* C4: an error raised while parsing job.handler, resolving the handler or
\* invoking it is turned into one adapter.failure call, and perform() does not
\* reject because of it (only a failing adapter call may reject it).
C4_JobErrorsContained ==
    (Settled /\ errStep \in {"parse", "resolve", "invoke"}) =>
        /\ failureCalls = 1
        /\ ePc = "rejected" => rejection[1].src = "adapter"

\* C5: the error passed to adapter.failure is a JobExportNotFoundError made by
\* the Executor and carrying details.handler exactly when the caught error's
\* message contains "is not a constructor"; otherwise it is the caught error
\* itself.
C5_Classification ==
    failArgs # Undefined =>
        LET e == caught[1]
            error == failArgs[1].error IN
        /\ Matches(e.msg) =>
              error = JobExportNotFoundError(Prop(details[1], "handler"), "executor")
        /\ ~Matches(e.msg) => error = e
        /\ (error.kind = "JobExportNotFoundError" /\ error.src = "executor")
              <=> Matches(e.msg)

\* C5 witness: the export GhostJob is missing, the engine's "is not a
\* constructor" TypeError was caught and adapter.failure received a
\* JobExportNotFoundError naming GhostJob.
C5_Witness ==
    /\ failArgs # Undefined
    /\ caught = Some(NotConstructorTypeError)
    /\ failArgs[1].error.kind = "JobExportNotFoundError"
    /\ failArgs[1].error.name = Some(JStr("GhostJob"))

----------------------------------------------------------------------------
(* Properties of the worker process *)

\* C6: once SIGINT has cleared forever while a job is in flight, that job
\* ends with its adapter.success or adapter.failure observed, and no claim is
\* issued afterwards.
C6_DrainedJobReported ==
    drainInFlight => (~claimAfterDrain /\ (Settled => Reports >= 1))

\* C7: after SIGINT has cleared forever, run() eventually resolves and the
\* process exits with code 0, provided the handler and the adapter calls
\* terminate (no adapter call fails).
C7_DrainTerminates ==
    (handlersInstalled /\ ~forever) ~> (exitCode = "0" \/ adapterFault)

\* C8: jobs are processed one at a time: a claim is never outstanding, and
\* the worker never idles, while an earlier claimed job has no completed
\* adapter.success / adapter.failure; at most one claimed job is unreported.
C8_OneAtATime ==
    /\ unreported + (IF wPc = "executing" /\ Reports = 0 THEN 1 ELSE 0) <= 1
    /\ unreported = 0
    /\ (wPc \in {"claiming", "waiting"} /\ jobsClaimed > 0) =>
           (ePc = "resolved" /\ Reports >= 1)

\* C8 witness: the second job has been claimed after the first one's report.
C8_Witness ==
    /\ jobsClaimed = 2
    /\ wPc = "executing"
    /\ ePc = "running"
    /\ Reports = 0

\* C9: with the listeners installed, a dispatched SIGTERM ends the process
\* with exit code 0 at once, and nothing runs after the exit.
C9_SigtermExitsNow ==
    /\ []((lastSignal = "SIGTERM" /\ handlersInstalled) => exitCode = "0")
    /\ [][exitCode # "none" => UNCHANGED vars]_vars

\* C9 witness: SIGTERM ended a draining worker whose job was still running
\* and unreported.
C9_Witness ==
    /\ lastSignal = "SIGTERM"
    /\ handlersInstalled
    /\ exitCode = "0"
    /\ ~forever
    /\ wPc = "executing"
    /\ ePc = "running"
    /\ Reports = 0

\* C10: a job that fails (resolution error, execution error, malformed
\* descriptor) never stops the worker: while forever is set and no SIGTERM
\* has come, run() does not reject because of it.
C10_FailedJobKeepsWorker ==
    ~(wPc = "rejected" /\ runError = "job" /\ ~adapterFault
        /\ errStep \in {"parse", "resolve", "invoke"}
        /\ forever /\ lastSignal # "SIGTERM")

\* C11: a worker started in workoff mode never polls or waits; a claim that
\* returns no job makes run() resolve at once; and when run() has resolved,
\* every job an earlier claim returned has been executed and has had its
\* outcome reported.
C11_WorkoffTerminates ==
    /\ [](argv.workoff => wPc # "waiting")
    /\ []((argv.workoff /\ ~argv.clear /\ wPc = "resolved") =>
            /\ unreported = 0
            /\ (jobsClaimed > 0 => (ePc = "resolved" /\ Reports >= 1)))
    /\ [][(argv.workoff /\ wPc = "claiming" /\ queueLeft = 0 /\ wPc' # wPc) =>
              wPc' \in {"resolved", "rejected"}]_vars

\* A workoff run that emptied a queue of MaxJobs jobs and then resolved.
C11_Witness ==
    /\ argv.workoff
    /\ forever
    /\ wPc = "resolved"
    /\ jobsClaimed = MaxJobs
    /\ queueLeft = 0
    /\ Reports = 1

\* C12: a worker started with clear calls adapter.clear exactly once, with the
\* queue it was given (undefined when none was), and over the whole run claims
\* no job, executes none and reports no outcome.
C12_ClearOnly ==
    argv.clear =>
        /\ wPc \in {"none", "idle", "clearing", "resolved", "rejected"}
        /\ clearCalls = (IF wPc \in {"none", "idle"} THEN << >> ELSE <<argv.queue>>)
        /\ jobsClaimed = 0
        /\ ePc = "none"
        /\ performCalls = 0
        /\ Reports = 0

\* A clear run scoped to a queue that called adapter.clear and resolved.
C12_Witness ==
    /\ argv.clear
    /\ argv.queue = Some("email")
    /\ wPc = "resolved"
    /\ clearCalls = <<Some("email")>>
    /\ exitCode = "0"

\* C13: once the constructor has run, options without an adapter made it throw
\* AdapterRequiredError (also when the job is missing too), options with an
\* adapter but without a job made it throw JobRequiredError, and an Executor
\* whose constructor threw never parsed or looked up a handler, never invoked
\* one and never called adapter.success or adapter.failure.
C13_RequiredOptions ==
    ePc \notin {"none", "new"} =>
        /\ Get(given, "adapter") = Undefined =>
              (ePc = "ctorThrew" /\ rejection = Some(AdapterRequiredError))
        /\ (Get(given, "adapter") # Undefined /\ Get(given, "job") = Undefined) =>
              (ePc = "ctorThrew" /\ rejection = Some(JobRequiredError))
        /\ ePc = "ctorThrew" =>
              /\ Get(given, "adapter") = Undefined \/ Get(given, "job") = Undefined
              /\ details = Undefined
              /\ errStep = "none"
              /\ performCalls = 0
              /\ Reports = 0

\* Both the adapter and the job are missing and the constructor has thrown.
C13_Witness ==
    /\ ePc = "ctorThrew"
    /\ Get(given, "adapter") = Undefined
    /\ Get(given, "job") = Undefined
    /\ rejection = Some(AdapterRequiredError)

\* C14: once loadAdapter() has failed, the process has exited with code 1, no
\* Worker was constructed or run, and no adapter claim, clear, success or
\* failure call was ever made.
C14_AdapterInitFailure ==
    adapterLoad = "failed" =>
        /\ exitCode = "1"
        /\ mainPc = "loadAdapter"
        /\ wPc = "none"
        /\ jobsClaimed = 0
        /\ clearCalls = << >>
        /\ ePc = "none"
        /\ Reports = 0
        /\ ~adapterFault

\* loadAdapter() failed in a process whose backing store held jobs.
C14_Witness ==
    /\ adapterLoad = "failed"
    /\ exitCode = "1"
    /\ queueLeft = MaxJobs

\* The value the Executor is to hold for an option: the supplied value when one
\* was supplied, the fixed default otherwise.
C15_Expected(key) ==
    IF Get(given, key) # Undefined THEN Get(given, key) ELSE DEFAULTS[key]

\* C15: a constructed Executor holds, for each of logger, maxAttempts and
\* deleteFailedJobs, the supplied value when one was supplied and the default
\* otherwise, also when the key is present but undefined; the options passed
\* to adapter.failure carry a defined maxAttempts and deleteFailedJobs.
C15_OptionDefaults ==
    /\ ePc \notin {"none", "new", "ctorThrew"} =>
          /\ executor.logger = C15_Expected("logger")
          /\ executor.maxAttempts = C15_Expected("maxAttempts")
          /\ executor.deleteFailedJobs = C15_Expected("deleteFailedJobs")
    /\ failArgs # Undefined =>
          /\ failArgs[1].opts.maxAttempts # Undefined
          /\ failArgs[1].opts.deleteFailedJobs # Undefined

\* C16: the Executor holds the job it was constructed with, and the job it
\* passes to adapter.success or adapter.failure is that job, with the id and
\* the handler payload it was supplied with.
C16_JobUntouched ==
    /\ ePc \notin {"none", "new", "ctorThrew"} => executor.job = given.job
    /\ succArg # Undefined =>
          /\ succArg[1] = given.job[1]
          /\ succArg[1].id = given.job[1].id
          /\ succArg[1].handler = given.job[1].handler
    /\ failArgs # Undefined =>
          /\ failArgs[1].job = given.job[1]
          /\ failArgs[1].job.id = given.job[1].id
          /\ failArgs[1].job.handler = given.job[1].handler

\* Both adapter.success and adapter.failure have been handed the job.
C16_Witness ==
    /\ Settled
    /\ succArg = given.job
    /\ failArgs # Undefined
    /\ failArgs[1].job = given.job[1]
    /\ given.job[1].handler # << >>

\* C17: one perform() call invokes the handler's perform at most once: it has
\* been invoked exactly once when the handler returned or threw, and not at
\* all when its constructor threw or the handler was never reached.
C17_NoRetry ==
    /\ performCalls <= 1
    /\ handlerResult \in {"returned", "threw"} => performCalls = 1
    /\ (handlerResult = "ctorThrew" \/ (handlerResult = "none" /\ ePc # "running"))
          => performCalls = 0
    /\ handlerResult \in {"threw", "ctorThrew"} => successCalls = 0

\* The handler threw, the failure was reported and perform() settled after a
\* single invocation.
C17_Witness ==
    /\ Settled
    /\ handlerResult = "threw"
    /\ performCalls = 1
    /\ failureCalls = 1

\* C18: once worker.run() has been started, a signal is dispatched to
\* JavaScript only with both listeners installed: whenever the event loop can
\* dispatch after the start of run(), and whenever a job has been claimed or
\* is in flight, the listeners are installed; a process ended by the default
\* disposition of a signal had claimed no job; and a SIGINT handled after the
\* start of run() sets worker.forever to false and does not end the process.
C18_ListenersBeforeSignals ==
    /\ []((StackEmpty /\ wPc \notin {"none", "idle"}) => handlersInstalled)
    /\ []((InFlight \/ jobsClaimed > 0) => handlersInstalled)
    /\ [](exitCode = "signal" => (jobsClaimed = 0 /\ ePc = "none"))
    /\ [][(wPc \notin {"none", "idle"} /\ handlersInstalled
             /\ lastSignal # "SIGINT" /\ lastSignal' = "SIGINT") =>
              (forever' = FALSE /\ exitCode' = exitCode /\ wPc' = wPc
                 /\ ePc' = ePc)]_vars

\* A SIGINT was handled while a claimed job was in flight, and the job is
\* still in flight.
C18_Witness ==
    /\ InFlight
    /\ drainInFlight
    /\ lastSignal = "SIGINT"
    /\ ~forever
    /\ exitCode = "none"

\* C19 as stated: the process exits with code 0 only after run() resolved or a
\* SIGTERM was received, with code 1 only after adapter loading failed, and
\* never with code 0 after run() rejected.
C19_ExitCodes ==
    /\ exitCode = "0" => (wPc = "resolved" \/ lastSignal = "SIGTERM")
    /\ exitCode = "1" => adapterLoad = "failed"
    /\ wPc = "rejected" => exitCode # "0"

\* C19 amended: the process exits with code 0 only after run() resolved, a
\* SIGTERM was received or the usage or version text was asked for, with code
\* 1 only after adapter loading failed or after main() or run() rejected, and
\* never with code 0 after run() rejected.
C19_ExitCodesAmended ==
    /\ exitCode = "0" => (wPc = "resolved" \/ lastSignal = "SIGTERM" \/ argv.help)
    /\ exitCode = "1" =>
          (adapterLoad = "failed" \/ wPc = "rejected" \/ mainPc = "rejected")
    /\ wPc = "rejected" => exitCode # "0"

\* A claim-time adapter error rejected run() and the process ended with code 1
\* although the adapter had loaded.
C19_Witness ==
    /\ adapterLoad = "loaded"
    /\ wPc = "rejected"
    /\ runError = "claim"
    /\ exitCode = "1"

============================================================================
